---- MODULE Spec2Model ----
(***************************************************************************)
(* Model of the two utilities of thera-ie:                                 *)
(*   src/utilities/quickumls_wrapper.py  - the term-lookup CLI             *)
(*   src/utilities/install_quickumls.py  - the environment provisioner     *)
(*                                                                         *)
(* Three specifications share the variables:                               *)
(*   QSpec    - query_quickumls applied once to a bounded matcher answer   *)
(*   Spec     - one run of the lookup CLI, from interpreter start to exit  *)
(*   InstSpec - one run of the installer                                   *)
(***************************************************************************)
EXTENDS Integers, Sequences, FiniteSets, TLC

VARIABLES
    \* ---- query_quickumls in isolation (QSpec) ----
    matches,        \* what matcher.match returned: [raises, groups]
    results,        \* what query_quickumls returned for it
    qpc,            \* "call" before the call, "ret" after, "off" in other specs
    \* ---- the lookup CLI (Spec) ----
    pc,             \* position of the process
    env,            \* the machine: [iconv_ok, index_exists]
    args,           \* parsed command line: [term, batch_file, batch_terms, output]
    matcher,        \* number of QuickUMLS objects constructed
    terms,          \* the terms of the batch being processed
    idx,            \* number of terms of the batch already processed
    batch_results,  \* the mapping batch_query_quickumls builds
    calls,          \* history of matcher.match calls: [term, raised, results]
    opened,         \* number of open() attempts on the batch file
    modes,          \* input modes entered, in order
    stdout,         \* items written to standard output
    stderr,         \* items written to standard error
    exitCode,       \* -1 while running, else the exit status
    \* ---- the installer (InstSpec) ----
    ipc,            \* position of the installer
    venv_exists,    \* os.path.exists(venv_path) at start
    dep,            \* index of the next dependency to install
    steps,          \* history of run_command calls: [name, ok]
    success,        \* value main() returned: "none", "true", "false"
    iexit           \* -1 while running, else the exit status

qvars == <<matches, results, qpc>>
cvars == <<pc, env, args, matcher, terms, idx, batch_results, calls, opened,
           modes, stdout, stderr, exitCode>>
ivars == <<ipc, venv_exists, dep, steps, success, iexit>>
vars == <<qvars, cvars, ivars>>

----------------------------------------------------------------------------
(* Bounds of the model *)

MaxGroups == 2      \* match groups in one matcher answer (QSpec)
MaxCands == 4       \* candidates in one matcher answer, all groups together (QSpec)
MaxSim == 2         \* similarities are 0 .. MaxSim tenths (QSpec)
MaxTerms == 2       \* terms after --batch-terms
MaxLines == 2       \* lines of the batch file

----------------------------------------------------------------------------
(* Python values.  A value is a record tagged with its Python type, so that *)
(* isinstance, str() and dict.get() can be computed as Python computes them *)

Absent == [t |-> "absent"]                  \* the key is not in the dict
PyNone == [t |-> "None"]
PyInt(n) == [t |-> "int", n |-> n]
PyFloat(f) == [t |-> "float", f |-> f]      \* f tenths: PyFloat(7) is 0.7
PyStrV(s) == [t |-> "str", s |-> s]
PyList(q) == [t |-> "list", q |-> q]

Digits == <<"0", "1", "2", "3", "4", "5", "6", "7", "8", "9">>

\* str(v)
PyStr(v) ==
    CASE v.t = "str" -> v.s
      [] v.t = "int" -> Digits[v.n + 1]
      [] v.t = "float" -> IF v.f >= 10 THEN "1." \o Digits[v.f - 9]
                                       ELSE "0." \o Digits[v.f + 1]
      [] v.t = "None" -> "None"

\* isinstance(v, (int, float))
IsNumeric(v) == v.t \in {"int", "float"}

\* `is not None` in place of truthiness
TruthyPresent(v) == v.t # "None"

\* bool(v) for the argument values argparse produces
Truthy(v) ==
    CASE v.t = "None" -> FALSE
      [] v.t = "str" -> v.s # ""
      [] v.t = "list" -> v.q # <<>>

\* d.get(k, default) on a concept dictionary
Get(d, k, default) == IF d[k].t = "absent" THEN default ELSE d[k]

----------------------------------------------------------------------------
(* query_quickumls *)

TopN == 3

\* lines 48-66 without the fallback to `term` of lines 51-53
NormalizeNoFallback(concept) ==
    [cui |-> Get(concept, "cui", PyStrV("")),
     preferred_name |-> PyStrV(PyStr(Get(concept, "preferred", PyStrV("")))),
     similarity |-> Get(concept, "similarity", PyFloat(0)),
     semtypes |-> Get(concept, "semtypes", PyList(<<>>)).q,
     method |-> "quickumls"]

\* lines 48-66: one candidate concept to one flat record
Normalize(concept) ==
    LET preferred == Get(concept, "preferred", PyStrV(""))
        preferred_name ==
            IF IsNumeric(preferred)
            THEN Get(concept, "term", PyStrV(PyStr(preferred)))
            ELSE PyStrV(PyStr(preferred))
    IN [cui |-> Get(concept, "cui", PyStrV("")),
        preferred_name |-> preferred_name,
        similarity |-> Get(concept, "similarity", PyFloat(0)),
        semtypes |-> Get(concept, "semtypes", PyList(<<>>)).q,
        method |-> "quickumls"]

\* lines 45-47, 60: the two nested loops appending to results
RECURSIVE FlattenGroup(_)
FlattenGroup(match) ==
    IF match = <<>> THEN <<>>
    ELSE <<Normalize(Head(match))>> \o FlattenGroup(Tail(match))

RECURSIVE Flatten(_)
Flatten(groups) ==
    IF groups = <<>> THEN <<>>
    ELSE FlattenGroup(Head(groups)) \o Flatten(Tail(groups))

\* list.sort(key=similarity, reverse=True): stable, so records of equal
\* similarity keep their order of arrival
RECURSIVE InsertDesc(_, _)
InsertDesc(sorted, r) ==
    IF sorted = <<>> THEN <<r>>
    ELSE IF Head(sorted).similarity.f >= r.similarity.f
         THEN <<Head(sorted)>> \o InsertDesc(Tail(sorted), r)
         ELSE <<r>> \o sorted

RECURSIVE SortFrom(_, _)
SortFrom(sorted, rest) ==
    IF rest = <<>> THEN sorted
    ELSE SortFrom(InsertDesc(sorted, Head(rest)), Tail(rest))

\* the list left as it was appended to
SortUnsorted(rs) == rs

\* line 69
SortDesc(rs) == SortFrom(<<>>, rs)

\* results[:n]
Slice(rs, n) == IF Len(rs) <= n THEN rs ELSE SubSeq(rs, 1, n)

QueryError == <<[error |-> "QuickUMLS query failed"]>>

\* lines 40-73; m is what matcher.match did: [raises, groups]
query_quickumls(m) ==
    IF m.raises THEN QueryError
    ELSE Slice(SortDesc(Flatten(m.groups)), TopN)

----------------------------------------------------------------------------
(* Bounded matcher answers *)

Sims == {PyFloat(f) : f \in 0..MaxSim}

\* candidates that differ in similarity (present or not): the ranking cases
RankConcepts ==
    {[cui |-> PyStrV("C0015967"), preferred |-> PyStrV("fever"), term |-> Absent,
      similarity |-> s, semtypes |-> Absent] : s \in Sims \cup {Absent}}

\* candidates that differ in preferred and term: the naming cases
NameConcepts ==
    {[cui |-> c, preferred |-> p, term |-> tm,
      similarity |-> PyFloat(1), semtypes |-> st] :
        c \in {Absent, PyStrV("C1")},
        p \in {Absent, PyNone, PyInt(0), PyInt(7), PyFloat(1), PyFloat(10),
               PyStrV("fever"), PyStrV("7"), PyStrV("")},
        tm \in {Absent, PyNone, PyStrV("flu"), PyStrV("")},
        st \in {Absent, PyList(<<"T047", "T033">>)}}

SeqsUpTo(S, n) == UNION {[1..k -> S] : k \in 0..n}

\* the ways to cut a list of n candidates into at most MaxGroups groups, as
\* the index of the last candidate of each group (groups may be empty)
Cuts(n) ==
    {c \in SeqsUpTo(0..n, MaxGroups) :
        /\ \A j \in 1..(Len(c) - 1) : c[j] <= c[j + 1]
        /\ IF c = <<>> THEN n = 0 ELSE c[Len(c)] = n}

Split(flat, c) ==
    [j \in 1..Len(c) |-> SubSeq(flat, (IF j = 1 THEN 0 ELSE c[j - 1]) + 1, c[j])]

NameAnswers == {<<<<c>>>> : c \in NameConcepts}

\* the answers matcher.match gives in a run of the CLI
Hi == [cui |-> PyStrV("C0015967"), preferred |-> PyStrV("Fever"), term |-> Absent,
       similarity |-> PyFloat(9), semtypes |-> PyList(<<"T184">>)]
Lo == [cui |-> PyStrV("C0018681"), preferred |-> PyInt(7), term |-> PyStrV("headache"),
       similarity |-> PyFloat(7), semtypes |-> Absent]

CliAnswers ==
    {[raises |-> TRUE, groups |-> <<>>],
     [raises |-> FALSE, groups |-> <<>>],
     [raises |-> FALSE, groups |-> <<<<Hi>>>>],
     [raises |-> FALSE, groups |-> <<<<Lo, Hi>>, <<Lo, Hi>>>>]}

----------------------------------------------------------------------------
(* The lookup CLI *)

ArgTerms == {"", "fever", "headache"}
RawLines == {"fever", " headache ", "  "}

\* line.strip() on the lines of RawLines
Strip(line) ==
    CASE line = " headache " -> "headache"
      [] line = "  " -> ""
      [] OTHER -> line

\* line 106: [line.strip() for line in f if line.strip()]
RECURSIVE ReadTerms(_)
ReadTerms(lines) ==
    IF lines = <<>> THEN <<>>
    ELSE IF Strip(Head(lines)) # ""
         THEN <<Strip(Head(lines))>> \o ReadTerms(Tail(lines))
         ELSE ReadTerms(Tail(lines))

\* the argument values argparse can produce for lines 91-95
ArgSpace ==
    [term : {PyNone} \cup {PyStrV(s) : s \in {"", "fever"}},
     batch_file : {PyNone, PyStrV(""), PyStrV("terms.txt")},
     batch_terms : {PyNone} \cup
                   {PyList(q) : q \in SeqsUpTo(ArgTerms, MaxTerms) \ {<<>>}},
     output : {"json", "simple"}]

\* one item written to a stream: a JSON object with its top-level keys, a JSON
\* array, a text line or a traceback
Out(kind, keys, text) == [kind |-> kind, keys |-> keys, text |-> text]

\* print(json.dumps({"error": message}))
ErrorObject(message) == Out("json_object", {"error"}, message)

Traceback(exc) == Out("traceback", {}, exc)

UsageLine == Out("line", {}, "Error: Must provide either --term, --batch-file, or --batch-terms")

\* a bare `except:`
ExceptAll(exc) == TRUE

\* `except Exception` (line 36): SystemExit is a BaseException, not an Exception
ExceptException(exc) == exc # "SystemExit"

\* d.setdefault(k, v) in place of d[k] = v
PutKeepFirst(d, k, v) == [x \in DOMAIN d \cup {k} |-> IF x \in DOMAIN d THEN d[x] ELSE v]

\* d[k] = v
Put(d, k, v) == [x \in DOMAIN d \cup {k} |-> IF x = k THEN v ELSE d[x]]

EmptyDict == [x \in {} |-> <<>>]

IdleC ==
    /\ pc = "off" /\ env = [iconv_ok |-> TRUE, index_exists |-> TRUE]
    /\ args = <<>> /\ matcher = 0 /\ terms = <<>> /\ idx = 0
    /\ batch_results = EmptyDict /\ calls = <<>> /\ opened = 0 /\ modes = <<>>
    /\ stdout = <<>> /\ stderr = <<>> /\ exitCode = -1

IdleI ==
    /\ ipc = "off" /\ venv_exists = FALSE /\ dep = 0 /\ steps = <<>>
    /\ success = "none" /\ iexit = -1

IdleQ ==
    /\ matches = [raises |-> FALSE, groups |-> <<>>] /\ results = <<>>
    /\ qpc = "off"

Init ==
    /\ pc = "load"
    /\ env \in [iconv_ok : BOOLEAN, index_exists : BOOLEAN]
    /\ \E a \in ArgSpace : args = a
    /\ matcher = 0 /\ terms = <<>> /\ idx = 0
    /\ batch_results = EmptyDict /\ calls = <<>> /\ opened = 0 /\ modes = <<>>
    /\ stdout = <<>> /\ stderr = <<>> /\ exitCode = -1
    /\ IdleQ /\ IdleI

\* the process ends with status code
Exit(code) == pc' = "exit" /\ exitCode' = code

\* line 19: ctypes.CDLL(libiconv_path, mode=RTLD_GLOBAL), at import time
PreloadOk ==
    /\ pc = "load" /\ env.iconv_ok
    /\ pc' = "main"
    /\ UNCHANGED <<env, args, matcher, terms, idx, batch_results, calls, opened,
                   modes, stdout, stderr, exitCode, qvars, ivars>>

\* line 19 raising OSError: uncaught, the interpreter prints a traceback
PreloadFails ==
    /\ pc = "load" /\ ~env.iconv_ok
    /\ stderr' = Append(stderr, Traceback("OSError"))
    /\ Exit(1)
    /\ UNCHANGED <<env, args, matcher, terms, idx, batch_results, calls, opened,
                   modes, stdout, qvars, ivars>>

\* what initialize_quickumls prints when exc is raised in its try block
InitRaise(exc, printed) ==
    IF ExceptException(exc)
    THEN Append(printed, ErrorObject("QuickUMLS initialization failed: " \o exc))
    ELSE printed

\* lines 97-100 with `from quickumls import QuickUMLS` (line 24) raising
InitImportFails ==
    /\ pc = "main"
    /\ stdout' = InitRaise("ImportError", stdout)
    /\ Exit(1)
    /\ UNCHANGED <<env, args, matcher, terms, idx, batch_results, calls, opened,
                   modes, stderr, qvars, ivars>>

\* lines 97-100 with the index missing (lines 29-31): print, then sys.exit(1)
InitIndexMissing ==
    /\ pc = "main" /\ ~env.index_exists
    /\ stdout' = InitRaise("SystemExit",
                     Append(stdout, ErrorObject("QuickUMLS index not found")))
    /\ Exit(1)
    /\ UNCHANGED <<env, args, matcher, terms, idx, batch_results, calls, opened,
                   modes, stderr, qvars, ivars>>

\* the handler of line 36 without its sys.exit(1)
InitCtorFailsNoExit ==
    /\ pc = "main" /\ env.index_exists
    /\ stdout' = InitRaise("Exception", stdout)
    /\ pc' = "select"
    /\ UNCHANGED <<env, args, matcher, terms, idx, batch_results, calls, opened,
                   modes, stderr, exitCode, qvars, ivars>>

\* lines 97-100 with the QuickUMLS constructor (line 33) raising
InitCtorFails ==
    /\ pc = "main" /\ env.index_exists
    /\ stdout' = InitRaise("Exception", stdout)
    /\ Exit(1)
    /\ UNCHANGED <<env, args, matcher, terms, idx, batch_results, calls, opened,
                   modes, stderr, qvars, ivars>>

\* lines 97-100 with the matcher constructed (lines 33-34)
InitOk ==
    /\ pc = "main" /\ env.index_exists
    /\ matcher' = matcher + 1
    /\ pc' = "select"
    /\ UNCHANGED <<env, args, terms, idx, batch_results, calls, opened,
                   modes, stdout, stderr, exitCode, qvars, ivars>>

\* lines 103-106: --batch-file, the file read
SelectBatchFile ==
    /\ pc = "select" /\ Truthy(args.batch_file)
    /\ opened' = opened + 1
    /\ modes' = Append(modes, "batch_file")
    /\ \E lines \in SeqsUpTo(RawLines, MaxLines) :
          terms' = ReadTerms(lines)
    /\ idx' = 0 /\ batch_results' = EmptyDict
    /\ pc' = "batch"
    /\ UNCHANGED <<env, args, matcher, calls, stdout, stderr, exitCode, qvars, ivars>>

\* line 105 raising OSError (no such file): uncaught
SelectBatchFileFails ==
    /\ pc = "select" /\ Truthy(args.batch_file)
    /\ opened' = opened + 1
    /\ modes' = Append(modes, "batch_file")
    /\ stderr' = Append(stderr, Traceback("OSError"))
    /\ Exit(1)
    /\ UNCHANGED <<env, args, matcher, terms, idx, batch_results, calls, stdout,
                   qvars, ivars>>

\* --batch-terms tested before --batch-file
SelectBatchTermsFirst ==
    /\ pc = "select" /\ Truthy(args.batch_terms)
    /\ modes' = Append(modes, "batch_terms")
    /\ terms' = args.batch_terms.q
    /\ idx' = 0 /\ batch_results' = EmptyDict
    /\ pc' = "batch"
    /\ UNCHANGED <<env, args, matcher, calls, opened, stdout, stderr, exitCode,
                   qvars, ivars>>

\* lines 110-112: --batch-terms
SelectBatchTerms ==
    /\ pc = "select" /\ ~Truthy(args.batch_file) /\ Truthy(args.batch_terms)
    /\ modes' = Append(modes, "batch_terms")
    /\ terms' = args.batch_terms.q
    /\ idx' = 0 /\ batch_results' = EmptyDict
    /\ pc' = "batch"
    /\ UNCHANGED <<env, args, matcher, calls, opened, stdout, stderr, exitCode,
                   qvars, ivars>>

\* lines 80-82: one turn of the loop of batch_query_quickumls.  query_quickumls
\* catches every Exception itself (line 72), so nothing in the loop can raise
\* and the handler of lines 86-87 is never entered.
BatchStep ==
    /\ pc = "batch" /\ idx < Len(terms)
    /\ \E m \in CliAnswers :
          LET term == terms[idx + 1]
              res == query_quickumls(m)
          IN /\ calls' = Append(calls, [term |-> term, raised |-> m.raises,
                                         results |-> res])
             /\ batch_results' = Put(batch_results, term, res)
    /\ idx' = idx + 1
    /\ UNCHANGED <<pc, env, args, matcher, terms, opened, modes, stdout, stderr,
                   exitCode, qvars, ivars>>

\* lines 84 and 108/113: the mapping returned and printed; main returns
BatchPrint ==
    /\ pc = "batch" /\ idx = Len(terms)
    /\ stdout' = Append(stdout, Out("json_object", DOMAIN batch_results, "batch_results"))
    /\ Exit(0)
    /\ UNCHANGED <<env, args, matcher, terms, idx, batch_results, calls, opened,
                   modes, stderr, qvars, ivars>>

\* the loop of lines 122-127 without the test of line 123
RECURSIVE SimpleLinesAll(_)
SimpleLinesAll(res) ==
    IF res = <<>> THEN <<>>
    ELSE <<Out("line", {}, "CUI"), Out("line", {}, "Preferred"),
           Out("line", {}, "Similarity"), Out("line", {}, "---")>>
         \o SimpleLinesAll(Tail(res))

\* lines 122-127: the simple format of a result list
RECURSIVE SimpleLines(_)
SimpleLines(res) ==
    IF res = <<>> THEN <<>>
    ELSE (IF "error" \notin DOMAIN Head(res)
          THEN <<Out("line", {}, "CUI"), Out("line", {}, "Preferred"),
                 Out("line", {}, "Similarity"), Out("line", {}, "---")>>
          ELSE <<>>) \o SimpleLines(Tail(res))

\* lines 115-127: --term
SingleTerm ==
    /\ pc = "select" /\ ~Truthy(args.batch_file) /\ ~Truthy(args.batch_terms)
    /\ Truthy(args.term)
    /\ modes' = Append(modes, "term")
    /\ \E m \in CliAnswers :
          LET res == query_quickumls(m)
          IN /\ calls' = Append(calls, [term |-> args.term.s, raised |-> m.raises,
                                         results |-> res])
             /\ stdout' = IF args.output = "json"
                          THEN Append(stdout, Out("json_array", {}, "results"))
                          ELSE stdout \o SimpleLines(res)
    /\ Exit(0)
    /\ UNCHANGED <<env, args, matcher, terms, idx, batch_results, opened, stderr,
                   qvars, ivars>>

\* the else branch without its sys.exit(1)
UsageExitZero ==
    /\ pc = "select" /\ ~Truthy(args.batch_file) /\ ~Truthy(args.batch_terms)
    /\ ~Truthy(args.term)
    /\ stdout' = Append(stdout, UsageLine)
    /\ Exit(0)
    /\ UNCHANGED <<env, args, matcher, terms, idx, batch_results, calls, opened,
                   modes, stderr, qvars, ivars>>

\* lines 128-130: no mode
Usage ==
    /\ pc = "select" /\ ~Truthy(args.batch_file) /\ ~Truthy(args.batch_terms)
    /\ ~Truthy(args.term)
    /\ stdout' = Append(stdout, UsageLine)
    /\ Exit(1)
    /\ UNCHANGED <<env, args, matcher, terms, idx, batch_results, calls, opened,
                   modes, stderr, qvars, ivars>>

Next ==
    \/ PreloadOk \/ PreloadFails
    \/ InitImportFails \/ InitIndexMissing \/ InitCtorFails \/ InitOk
    \/ SelectBatchFile \/ SelectBatchFileFails \/ SelectBatchTerms
    \/ BatchStep \/ BatchPrint
    \/ SingleTerm \/ Usage

Spec == Init /\ [][Next]_vars

----------------------------------------------------------------------------
(* The installer *)

\* lines 70-80
dependencies ==
    <<"wheel", "setuptools", "numpy", "scipy", "scikit-learn", "nltk", "spacy",
      "unidecode", "leveldb">>

\* lines 13-38: run_command(cmd, description) with the command's outcome ok;
\* the call is recorded, the result is truthy exactly when ok
run_command(description, ok) == Append(steps, [name |-> description, ok |-> ok])

\* lines 134-135: success = main(); sys.exit(0 if success else 1)
Return(value) ==
    /\ success' = (IF value THEN "true" ELSE "false")
    /\ iexit' = (IF value THEN 0 ELSE 1)
    /\ ipc' = "exit"

InstInit ==
    /\ ipc = "start"
    /\ venv_exists \in BOOLEAN
    /\ dep = 1 /\ steps = <<>> /\ success = "none" /\ iexit = -1
    /\ IdleQ /\ IdleC

\* lines 50-52: an existing environment is removed, the result ignored
RemoveVenv ==
    /\ ipc = "start" /\ venv_exists
    /\ \E ok \in BOOLEAN : steps' = run_command("Remove existing venv", ok)
    /\ ipc' = "venv"
    /\ UNCHANGED <<venv_exists, dep, success, iexit, qvars, cvars>>

\* line 50 false
NoVenv ==
    /\ ipc = "start" /\ ~venv_exists
    /\ ipc' = "venv"
    /\ UNCHANGED <<venv_exists, dep, steps, success, iexit, qvars, cvars>>

\* lines 54-57
CreateVenv ==
    /\ ipc = "venv"
    /\ \E ok \in BOOLEAN :
          /\ steps' = run_command("Create virtual environment", ok)
          /\ IF ok THEN ipc' = "pip" /\ UNCHANGED <<success, iexit>>
                   ELSE Return(FALSE)
    /\ UNCHANGED <<venv_exists, dep, qvars, cvars>>

\* lines 64-67
UpgradePip ==
    /\ ipc = "pip"
    /\ \E ok \in BOOLEAN :
          /\ steps' = run_command("Upgrade pip", ok)
          /\ IF ok THEN ipc' = "deps" /\ UNCHANGED <<success, iexit>>
                   ELSE Return(FALSE)
    /\ UNCHANGED <<venv_exists, dep, qvars, cvars>>

\* the loop of lines 82-85 returning False on a failure
InstallDepFatal ==
    /\ ipc = "deps" /\ dep <= Len(dependencies)
    /\ \E ok \in BOOLEAN :
          /\ steps' = run_command("Install " \o dependencies[dep], ok)
          /\ IF ok THEN dep' = dep + 1 /\ UNCHANGED <<ipc, success, iexit>>
                   ELSE Return(FALSE) /\ UNCHANGED dep
    /\ UNCHANGED <<venv_exists, qvars, cvars>>

\* lines 82-85: one turn of the loop; a failure only warns
InstallDep ==
    /\ ipc = "deps" /\ dep <= Len(dependencies)
    /\ \E ok \in BOOLEAN : steps' = run_command("Install " \o dependencies[dep], ok)
    /\ dep' = dep + 1
    /\ UNCHANGED <<ipc, venv_exists, success, iexit, qvars, cvars>>

\* lines 88-91
InstallQuickUMLS ==
    /\ ipc = "deps" /\ dep > Len(dependencies)
    /\ \E ok \in BOOLEAN :
          /\ steps' = run_command("Install QuickUMLS", ok)
          /\ IF ok THEN ipc' = "test" /\ UNCHANGED <<success, iexit>>
                   ELSE Return(FALSE)
    /\ UNCHANGED <<venv_exists, dep, qvars, cvars>>

\* lines 113-131: the smoke test decides the result
TestImport ==
    /\ ipc = "test"
    /\ \E ok \in BOOLEAN :
          /\ steps' = run_command("Test QuickUMLS import", ok)
          /\ Return(ok)
    /\ UNCHANGED <<venv_exists, dep, qvars, cvars>>

InstNext ==
    \/ RemoveVenv \/ NoVenv \/ CreateVenv \/ UpgradePip
    \/ InstallDep \/ InstallQuickUMLS \/ TestImport

InstSpec == InstInit /\ [][InstNext]_vars

----------------------------------------------------------------------------
(* query_quickumls on its own *)

QInit ==
    /\ \/ \E flat \in SeqsUpTo(RankConcepts, MaxCands) : \E c \in Cuts(Len(flat)) :
             matches = [raises |-> FALSE, groups |-> Split(flat, c)]
       \/ \E g \in NameAnswers : matches = [raises |-> FALSE, groups |-> g]
       \/ matches = [raises |-> TRUE, groups |-> <<>>]
    /\ results = <<>>
    /\ qpc = "call"
    /\ IdleC /\ IdleI

Query ==
    /\ qpc = "call"
    /\ results' = query_quickumls(matches)
    /\ qpc' = "ret"
    /\ UNCHANGED <<matches, cvars, ivars>>

QNext == Query

QSpec == QInit /\ [][QNext]_vars

----------------------------------------------------------------------------
(* Properties of query_quickumls, checked under QSpec *)

\* the places of the candidates in the matcher's answer: <<group, index>>
Positions ==
    {p \in (DOMAIN matches.groups) \X (1..MaxCands) :
        p[2] \in DOMAIN matches.groups[p[1]]}

Candidate(p) == matches.groups[p[1]][p[2]]

\* the similarity of a candidate, in tenths, 0.0 when it has none
CandSim(p) ==
    IF Candidate(p).similarity.t = "absent" THEN 0 ELSE Candidate(p).similarity.f

Returned == qpc = "ret" /\ ~matches.raises

\* C1: when the matcher returns n candidates without raising, query_quickumls
\* returns min(3, n) records, none of them an error record, ordered by
\* similarity non-increasing; they are candidates of the answer, each taken
\* once, and no candidate left out has a similarity greater than a returned
\* one; no candidate at all gives the empty list.
C1_TopThreeBySimilarity ==
    Returned =>
        LET n == Cardinality(Positions)
        IN /\ Len(results) = (IF n < 3 THEN n ELSE 3)
           /\ \A i \in DOMAIN results : "error" \notin DOMAIN results[i]
           /\ \A i, j \in DOMAIN results :
                 i < j => results[i].similarity.f >= results[j].similarity.f
           /\ \E f \in [DOMAIN results -> Positions] :
                 /\ \A i, j \in DOMAIN results : i # j => f[i] # f[j]
                 /\ \A i \in DOMAIN results : results[i].similarity.f = CandSim(f[i])
                 /\ \A p \in Positions \ {f[i] : i \in DOMAIN results} :
                       \A i \in DOMAIN results : CandSim(p) <= results[i].similarity.f
           /\ (n = 0 => results = <<>>)

\* C1 witness: four candidates in two groups, arriving in ascending order of
\* similarity, of which the three best are returned and the worst left out.
C1_Witness ==
    /\ Returned
    /\ Len(matches.groups) = 2
    /\ Len(matches.groups[1]) = 2 /\ Len(matches.groups[2]) = 2
    /\ CandSim(<<1, 1>>) < CandSim(<<1, 2>>) /\ CandSim(<<1, 2>>) < CandSim(<<2, 1>>)
    /\ Len(results) = 3
    /\ results[1].similarity.f > results[3].similarity.f
    /\ \E p \in Positions : CandSim(p) < results[3].similarity.f

\* what Python's str() shows for the values of `preferred` in NameConcepts
Shown(v) ==
    CASE v = PyInt(0) -> "0"
      [] v = PyInt(7) -> "7"
      [] v = PyFloat(1) -> "0.1"
      [] v = PyFloat(10) -> "1.0"
      [] v = PyNone -> "None"
      [] v.t = "str" -> v.s

OneCandidate ==
    /\ Returned /\ Len(matches.groups) = 1 /\ Len(matches.groups[1]) = 1

\* C6: a candidate whose `preferred` is a number gets its `term` field as
\* preferred_name when it has one, and the number as a string when it has
\* none; any other `preferred` is shown as a string, the empty string when
\* the candidate has no `preferred`.
C6_PreferredName ==
    OneCandidate =>
        LET c == matches.groups[1][1]
            name == results[1].preferred_name
        IN /\ Len(results) = 1
           /\ c.preferred.t \in {"int", "float"} =>
                 /\ c.term.t # "absent" => name = c.term
                 /\ c.term.t = "absent" => name = PyStrV(Shown(c.preferred))
           /\ c.preferred.t \notin {"int", "float", "absent"} =>
                 name = PyStrV(Shown(c.preferred))
           /\ c.preferred.t = "absent" => name = PyStrV("")

\* C6 witness: a numeric `preferred` with a `term` beside it, named by the term.
C6_Witness ==
    /\ OneCandidate
    /\ matches.groups[1][1].preferred = PyInt(7)
    /\ matches.groups[1][1].term = PyStrV("flu")
    /\ results[1].preferred_name = PyStrV("flu")

----------------------------------------------------------------------------
(* Properties of the lookup CLI, checked under Spec *)

Exited == pc = "exit"

\* matcher initialisation succeeded: initialize_quickumls returned a matcher
Initialised == matcher = 1

HasErrorKey(o) == o.kind = "json_object" /\ "error" \in o.keys

\* the JSON documents on standard output
JsonDocs == {i \in DOMAIN stdout : stdout[i].kind \in {"json_object", "json_array"}}

CalledTerms == [i \in DOMAIN calls |-> calls[i].term]

IsPrefix(a, b) == Len(a) <= Len(b) /\ \A i \in DOMAIN a : a[i] = b[i]

\* C2 as stated: with the index missing, every run ends with status 1 and
\* exactly one JSON error object on standard output.
C2_Original ==
    (Exited /\ ~env.index_exists) =>
        /\ exitCode = 1
        /\ Len(stdout) = 1 /\ HasErrorKey(stdout[1])
        /\ matcher = 0 /\ calls = <<>>

\* C2 amended: with the index missing and the libiconv preload of line 19
\* succeeding, the run never gets past initialisation and ends with status 1,
\* exactly one JSON error object on standard output and nothing else, no
\* matcher constructed, no term queried, no batch file opened.
C2_IndexMissing ==
    (env.iconv_ok /\ ~env.index_exists) =>
        /\ pc \in {"load", "main", "exit"}
        /\ matcher = 0 /\ calls = <<>> /\ opened = 0 /\ modes = <<>>
        /\ Exited =>
              /\ exitCode = 1
              /\ Len(stdout) = 1 /\ HasErrorKey(stdout[1])
              /\ stderr = <<>>
        /\ ~Exited => stdout = <<>>

\* C2 witness: the index is missing, --batch-terms was given, and the run
\* ended with the one error object of line 30.
C2_Witness ==
    /\ Exited /\ env.iconv_ok /\ ~env.index_exists
    /\ Truthy(args.batch_terms)
    /\ stdout = <<ErrorObject("QuickUMLS index not found")>>
    /\ exitCode = 1

\* the result a call must have given what the matcher did
WellFormed(call) ==
    IF call.raised
    THEN Len(call.results) = 1 /\ "error" \in DOMAIN call.results[1]
    ELSE /\ Len(call.results) <= 3
         /\ \A i \in DOMAIN call.results : "error" \notin DOMAIN call.results[i]

InBatch == modes # <<>> /\ modes[1] \in {"batch_file", "batch_terms"}

\* C3: the keys of the batch mapping are exactly the terms processed so far,
\* each key holds the result of the last call made for that term, a term on
\* which the matcher raised holds a single error record and the others their
\* normal results, every term of the input is processed, and the run ends
\* with status 0.
C3_BatchMapping ==
    InBatch =>
        /\ Len(calls) = idx /\ idx <= Len(terms)
        /\ \A i \in DOMAIN calls : calls[i].term = terms[i] /\ WellFormed(calls[i])
        /\ DOMAIN batch_results = {terms[i] : i \in 1..idx}
        /\ \A t \in DOMAIN batch_results :
              \E i \in 1..idx :
                 /\ terms[i] = t
                 /\ \A j \in (i + 1)..idx : terms[j] # t
                 /\ batch_results[t] = calls[i].results
        /\ (Exited /\ stderr = <<>>) =>
              /\ idx = Len(terms)
              /\ exitCode = 0
              /\ stdout = <<Out("json_object", {terms[i] : i \in 1..Len(terms)},
                                "batch_results")>>
        /\ (Exited /\ stderr # <<>>) => opened = 1 /\ calls = <<>>

\* C3 witness: the same term twice, the matcher raising on the first call
\* and answering on the second; the key holds the second result.
C3_Witness ==
    /\ Exited /\ InBatch /\ exitCode = 0
    /\ terms = <<"fever", "fever">>
    /\ Len(calls) = 2 /\ calls[1].raised /\ ~calls[2].raised
    /\ Len(calls[2].results) = 3
    /\ batch_results["fever"] = calls[2].results

\* C3 second case: the matcher raises on one term and answers on the other
C3_Isolation ==
    /\ Exited /\ InBatch /\ exitCode = 0
    /\ terms = <<"fever", "headache">>
    /\ Len(calls) = 2 /\ calls[1].raised /\ ~calls[2].raised
    /\ "error" \in DOMAIN batch_results["fever"][1]
    /\ Len(batch_results["headache"]) = 1

NoFlags ==
    args.term = PyNone /\ args.batch_file = PyNone /\ args.batch_terms = PyNone

\* C4 as stated: with none of the three flags, a run that reaches main()
\* prints the usage error and exits 1, whether or not the matcher can be
\* initialised.
C4_Original ==
    (Exited /\ NoFlags /\ env.iconv_ok) => stdout = <<UsageLine>> /\ exitCode = 1

\* C4 amended: with none of the three flags the run exits 1 without a match
\* call; it prints the usage error exactly when matcher initialisation
\* succeeded, and otherwise prints what the failed initialisation printed.
C4_UsageAfterInit ==
    (Exited /\ NoFlags) =>
        /\ exitCode = 1 /\ calls = <<>> /\ opened = 0
        /\ Initialised <=> stdout = <<UsageLine>>
        /\ ~Initialised =>
              \/ stdout = <<>> /\ stderr # <<>>
              \/ Len(stdout) = 1 /\ HasErrorKey(stdout[1])

\* C4 witness: no flag, the matcher constructed, the usage error printed.
C4_Witness ==
    /\ Exited /\ NoFlags /\ Initialised
    /\ stdout = <<UsageLine>> /\ exitCode = 1

\* the mode the precedence batch-file > batch-terms > single-term selects
SelectedModes ==
    IF args.batch_file.t = "str" /\ args.batch_file.s # "" THEN <<"batch_file">>
    ELSE IF args.batch_terms.t = "list" THEN <<"batch_terms">>
    ELSE IF args.term.t = "str" /\ args.term.s # "" THEN <<"term">>
    ELSE <<>>

\* C5 as stated: every run whose initialisation succeeds executes exactly one
\* mode and prints exactly one result document.
C5_Original ==
    (Exited /\ Initialised) =>
        /\ Len(modes) = 1
        /\ Cardinality(JsonDocs) = 1

\* C5 amended: a run whose initialisation succeeds executes at most one mode,
\* the first of batch-file, batch-terms, single-term whose value is non-empty,
\* and none when no value is; only the terms of that mode are queried, in
\* order; one JSON result document is printed when a batch mode could read
\* its input or the single-term mode has json output, and none otherwise.
C5_OneModeByPrecedence ==
    Initialised =>
        /\ Len(modes) <= 1
        /\ pc \in {"batch", "exit"} => modes = SelectedModes
        /\ modes = <<"batch_file">> => IsPrefix(CalledTerms, terms)
        /\ modes = <<"batch_terms">> => IsPrefix(CalledTerms, args.batch_terms.q)
        /\ modes = <<"term">> => CalledTerms = <<args.term.s>>
        /\ modes = <<>> => calls = <<>>
        /\ Exited =>
              Cardinality(JsonDocs) =
                  IF \/ InBatch /\ stderr = <<>>
                     \/ modes = <<"term">> /\ args.output = "json"
                  THEN 1 ELSE 0

\* C5 witness: all three flags given; the batch file alone is processed and
\* one document printed.
C5_Witness ==
    /\ Exited /\ Initialised
    /\ Truthy(args.batch_file) /\ Truthy(args.batch_terms) /\ Truthy(args.term)
    /\ args.batch_terms.q = <<"fever">>
    /\ modes = <<"batch_file">>
    /\ CalledTerms = <<"headache">>
    /\ Cardinality(JsonDocs) = 1

\* C8: the matcher is constructed at most once and before any match call or
\* file read; the calls follow the input order, one term after the other; a
\* run whose construction failed exits 1 with no match call and no file read.
C8_ConstructOnceThenMatch ==
    /\ matcher \in {0, 1}
    /\ (calls # <<>> \/ opened > 0 \/ modes # <<>>) => matcher = 1
    /\ pc \in {"select", "batch"} => matcher = 1
    /\ InBatch => CalledTerms = SubSeq(terms, 1, idx)
    /\ modes = <<"term">> => CalledTerms = <<args.term.s>>
    /\ (Exited /\ matcher = 0) =>
          exitCode = 1 /\ calls = <<>> /\ opened = 0

\* C8 witness: the constructor raised in a --batch-file run: exit 1, the file
\* never opened, no call made.
C8_Witness ==
    /\ Exited /\ matcher = 0 /\ env.iconv_ok /\ env.index_exists
    /\ Truthy(args.batch_file)
    /\ stdout = <<ErrorObject("QuickUMLS initialization failed: Exception")>>
    /\ exitCode = 1 /\ opened = 0 /\ calls = <<>>

\* C8 second case: two terms matched in input order after one construction
C8_InOrder ==
    /\ Exited /\ matcher = 1
    /\ CalledTerms = <<"headache", "fever">>

\* a flag given an empty string: --term "", --batch-file "", --batch-terms ""
SuppliedEmpty(v) == v = PyStrV("") \/ v = PyList(<<"">>)

\* C9 as stated: a mode flag supplied with an empty string is treated as not
\* supplied, so its mode is never entered.
C9_Original ==
    (Exited /\ Initialised) =>
        /\ SuppliedEmpty(args.term) => "term" \notin {modes[i] : i \in DOMAIN modes}
        /\ SuppliedEmpty(args.batch_file) =>
              "batch_file" \notin {modes[i] : i \in DOMAIN modes}
        /\ SuppliedEmpty(args.batch_terms) =>
              "batch_terms" \notin {modes[i] : i \in DOMAIN modes}

\* C9 amended: in a run whose initialisation succeeds, --term "" and
\* --batch-file "" are treated as not supplied: --term "" alone ends in the
\* usage error with exit 1 and no match call, and --batch-file "" falls
\* through to --batch-terms or --term without opening a file; --batch-terms
\* always holds a non-empty list, so --batch-terms "" is treated as supplied
\* and the empty term is queried.
C9_EmptyStringFlags ==
    (Exited /\ Initialised) =>
        /\ args.term = PyStrV("") => modes # <<"term">>
        /\ (args.term = PyStrV("") /\ args.batch_file = PyNone
              /\ args.batch_terms = PyNone) =>
              stdout = <<UsageLine>> /\ exitCode = 1 /\ calls = <<>>
        /\ args.batch_file = PyStrV("") =>
              /\ opened = 0 /\ modes # <<"batch_file">>
              /\ args.batch_terms # PyNone => modes = <<"batch_terms">>
              /\ (args.batch_terms = PyNone /\ args.term = PyStrV("fever")) =>
                    modes = <<"term">>
        /\ (args.batch_file \in {PyNone, PyStrV("")}
              /\ args.batch_terms = PyList(<<"">>)) =>
              /\ modes = <<"batch_terms">>
              /\ CalledTerms = <<"">>
              /\ exitCode = 0

\* C9 witness: --batch-file "" with --batch-terms "": no file opened, the
\* batch-terms mode entered and the empty term queried.
C9_Witness ==
    /\ Exited /\ Initialised
    /\ args.batch_file = PyStrV("") /\ args.batch_terms = PyList(<<"">>)
    /\ opened = 0 /\ modes = <<"batch_terms">> /\ CalledTerms = <<"">>

\* C9 second case: --term "" alone ends in the usage error
C9_EmptyTermUsage ==
    /\ Exited /\ Initialised
    /\ args.term = PyStrV("") /\ args.batch_file = PyNone
    /\ args.batch_terms = PyNone
    /\ stdout = <<UsageLine>> /\ exitCode = 1

SimpleRun == Exited /\ modes = <<"term">> /\ args.output = "simple"

\* the records of a result list that are not error records
Records(res) == {i \in DOMAIN res : "error" \notin DOMAIN res[i]}

\* C10: single-term mode with --output simple prints four lines (CUI,
\* Preferred, Similarity, separator) for each record that is not an error
\* record and nothing else, and exits 0; a lookup that raised prints
\* nothing, as a lookup without matches does.
C10_SimpleOutput ==
    SimpleRun =>
        /\ Len(calls) = 1
        /\ exitCode = 0 /\ stderr = <<>>
        /\ Len(stdout) = 4 * Cardinality(Records(calls[1].results))
        /\ \A i \in DOMAIN stdout :
              /\ stdout[i].kind = "line"
              /\ stdout[i].text = <<"CUI", "Preferred", "Similarity", "---">>[((i - 1) % 4) + 1]
        /\ calls[1].raised => stdout = <<>>
        /\ calls[1].results = <<>> => stdout = <<>>

\* C10 witness: the lookup raised, nothing was printed, the status is 0.
C10_Witness ==
    /\ SimpleRun
    /\ calls[1].raised /\ calls[1].results = QueryError
    /\ stdout = <<>> /\ exitCode = 0

\* C10 second case: three records, twelve lines
C10_TwelveLines ==
    /\ SimpleRun
    /\ Len(calls[1].results) = 3 /\ Len(stdout) = 12

----------------------------------------------------------------------------
(* Properties of the installer, checked under InstSpec *)

StepNames == [i \in DOMAIN steps |-> steps[i].name]

\* the order of the steps after the optional removal of an old environment
Canon ==
    <<"Create virtual environment", "Upgrade pip">>
    \o [i \in DOMAIN dependencies |-> "Install " \o dependencies[i]]
    \o <<"Install QuickUMLS", "Test QuickUMLS import">>

FatalSteps == {"Create virtual environment", "Upgrade pip", "Install QuickUMLS"}

Ran(name) == \E i \in DOMAIN steps : steps[i].name = name
Succeeded(name) == \E i \in DOMAIN steps : steps[i].name = name /\ steps[i].ok

\* the steps without the removal step, which can only come first
Ordered ==
    LET k == IF steps # <<>> /\ steps[1].name = "Remove existing venv" THEN 1 ELSE 0
    IN /\ Len(steps) - k <= Len(Canon)
       /\ \A i \in (k + 1)..Len(steps) : steps[i].name = Canon[i - k]

\* C7: the steps run in the order create-venv, upgrade-pip, the dependencies,
\* QuickUMLS, smoke test; a failed create-venv, upgrade-pip or QuickUMLS
\* install is the last step run and the exit status is 1; failed dependency
\* installs stop nothing; the exit status is 0 exactly when create-venv,
\* upgrade-pip, the QuickUMLS install and the smoke test all succeeded.
C7_InstallerSteps ==
    /\ Ordered
    /\ \A i \in DOMAIN steps :
          steps[i].name \in FatalSteps /\ ~steps[i].ok =>
              i = Len(steps) /\ ipc = "exit" /\ iexit = 1
    /\ ipc = "exit" =>
          /\ iexit \in {0, 1}
          /\ Succeeded("Upgrade pip") =>
                /\ \A d \in DOMAIN dependencies : Ran("Install " \o dependencies[d])
                /\ Ran("Install QuickUMLS")
          /\ iexit = 0 <=>
                /\ Succeeded("Create virtual environment")
                /\ Succeeded("Upgrade pip")
                /\ Succeeded("Install QuickUMLS")
                /\ Succeeded("Test QuickUMLS import")
    /\ ipc # "exit" => iexit = -1

\* C7 witness: a run in which every dependency install failed and the
\* installer still went on to the smoke test and exited 0.
C7_Witness ==
    /\ ipc = "exit" /\ iexit = 0
    /\ \A d \in DOMAIN dependencies :
          \E i \in DOMAIN steps :
              steps[i].name = "Install " \o dependencies[d] /\ ~steps[i].ok
    /\ Ran("Test QuickUMLS import")

====
